---------------------------- MODULE Spec2Model ----------------------------
(***************************************************************************)
(* A model of torto (src/torto/torto.go): a task runner that parses its    *)
(* arguments into a target name and variable assignments, merges a global  *)
(* and a local targets file, resolves $NAME tokens and runs the commands   *)
(* of the selected target through a shell.                                 *)
(*                                                                         *)
(* A Go string is a sequence of one-character strings, so that             *)
(* strings.Contains, strings.ReplaceAll, strings.Join and the regular      *)
(* expression of the argument parser are computed, not assumed.            *)
(* A Go map is a record [nil, kv]: nil tells a nil map (reads as empty,    *)
(* panics on assignment) from an allocated one, kv is its content.         *)
(***************************************************************************)
EXTENDS Naturals, Sequences, FiniteSets, TLC

VARIABLES
    pc,         \* where the invocation is: see the actions
    c,          \* the Config (torto.go 18-26)
    args,       \* the positional arguments cobra hands to ArgsValidator
    parsed,     \* what getTargetNameAndRunArgs returned (line 223)
    gload,      \* what getTargetsFile(c.defaultTargetsFilePath) returned
    lload,      \* what getTargetsFile(c.targetsFilePath) returned
    targets,    \* ArgsValidator's local targets (line 231)
    err,        \* the error the last finished handler returned
    idx,        \* Execute's position in c.thisTarget (1-based)
    command,    \* Execute's local command while cmd.Run() is in progress
    shell,      \* the commands handed to the shell so far, in order
    status,     \* how each finished shell command ended (TRUE: success)
    out,        \* what has been printed so far, in order
    events      \* the calls of withResolvedArgs and the copies of the file
                \* variables into c.argReplacements so far, in order

vars == <<pc, c, args, parsed, gload, lload, targets, err, idx, command,
          shell, status, out, events>>

-----------------------------------------------------------------------------
(* Bounds of the model. *)

\* The longest command list of a target.
MaxCmds == 2

\* The most positional arguments of an invocation.
MaxArgs == 2

\* The most calls of withResolvedArgs on the stack that resolve the value
\* of a key already being resolved below them, before the model stops
\* following the recursion.
MaxReentry == 1

\* The most variables of a map besides CMD and BIN, where withResolvedArgs
\* is taken alone.
MaxKeys == 2

-----------------------------------------------------------------------------
(* Strings. *)

Lower == {"a","b","c","d","e","f","g","h","i","j","k","l","m",
          "n","o","p","q","r","s","t","u","v","w","x","y","z"}
Upper == {"A","B","C","D","E","F","G","H","I","J","K","L","M",
          "N","O","P","Q","R","S","T","U","V","W","X","Y","Z"}
Digit == {"0","1","2","3","4","5","6","7","8","9"}

\* The character class [a-zA-Z0-9] of the argument pattern.
AlNum == Lower \cup Upper \cup Digit

\* strings.Contains(s, sub) for a non-empty sub.
Contains(s, sub) ==
    \E i \in 1..Len(s) :
        /\ i + Len(sub) - 1 <= Len(s)
        /\ SubSeq(s, i, i + Len(sub) - 1) = sub

RECURSIVE ReplaceAll(_, _, _)
\* strings.ReplaceAll(s, old, new) for a non-empty old: the non-overlapping
\* occurrences of old, found left to right, each replaced by new.
ReplaceAll(s, old, new) ==
    IF Len(s) < Len(old) THEN s
    ELSE IF SubSeq(s, 1, Len(old)) = old
         THEN new \o ReplaceAll(SubSeq(s, Len(old) + 1, Len(s)), old, new)
         ELSE <<Head(s)>> \o ReplaceAll(Tail(s), old, new)

RECURSIVE Join(_, _)
\* strings.Join(elems, sep).
Join(elems, sep) ==
    IF elems = <<>> THEN <<>>
    ELSE IF Len(elems) = 1 THEN elems[1]
         ELSE elems[1] \o sep \o Join(Tail(elems), sep)

-----------------------------------------------------------------------------
(* Maps and errors. *)

EmptyKV == [k \in {} |-> <<>>]

\* make(map[...]...): an allocated, empty map.
MakeMap == [nil |-> FALSE, kv |-> EmptyKV]

\* The zero value of a map type.
NilMap == [nil |-> TRUE, kv |-> EmptyKV]

\* m[k] = v on the content of an allocated map.
Put(kv, k, v) == [x \in (DOMAIN kv) \cup {k} |-> IF x = k THEN v ELSE kv[x]]

\* Overlay with the assignment keeping an entry dst already holds.
OverlayKeepsOld(dst, src) ==
    [x \in (DOMAIN dst) \cup (DOMAIN src) |->
        IF x \in DOMAIN dst THEN dst[x] ELSE src[x]]

\* Overlay with a loop that only updates the entries dst already holds.
OverlayKnownOnly(dst, src) ==
    [x \in DOMAIN dst |-> IF x \in DOMAIN src THEN src[x] ELSE dst[x]]

\* for k, v := range src { dst[k] = v } on the contents.
Overlay(dst, src) ==
    [x \in (DOMAIN dst) \cup (DOMAIN src) |->
        IF x \in DOMAIN src THEN src[x] ELSE dst[x]]

\* An error value: its kind and, where the message names one, the target
\* name or the position of the command that failed.
Error(kind, name, n) == [kind |-> kind, name |-> name, n |-> n]
NoError == Error("nil", <<>>, 0)
ErrTargetMissing == Error("target missing. check usage with -h", <<>>, 0)
ErrExecutable == Error("os.Executable", <<>>, 0)
ErrUnknownTarget(name) == Error("target does not exist", name, 0)
ErrRun(n) == Error("cmd.Run", <<>>, n)


-----------------------------------------------------------------------------
(* getTargetNameAndRunArgs (torto.go 96-134). *)

\* The position of the first "=" of arg, 0 when it has none.
FirstEq(arg) ==
    IF \E i \in 1..Len(arg) : arg[i] = "="
    THEN CHOOSE i \in 1..Len(arg) :
            arg[i] = "=" /\ \A j \in 1..(i - 1) : arg[j] # "="
    ELSE 0

\* r.FindStringSubmatch(arg) for r = ^([a-zA-Z0-9]+)=(.+)$ : the empty
\* sequence when arg does not match, else <<arg, NAME, VALUE>>. The name
\* is one or more alphanumerics, so the "=" after it is the first of arg;
\* "." matches any character but a line feed and "$" only the end of text.
FindStringSubmatch(arg) ==
    LET eq == FirstEq(arg) IN
    IF /\ eq >= 2
       /\ \A j \in 1..(eq - 1) : arg[j] \in AlNum
       /\ eq < Len(arg)
       /\ \A j \in (eq + 1)..Len(arg) : arg[j] # "\n"
    THEN <<arg, SubSeq(arg, 1, eq - 1), SubSeq(arg, eq + 1, Len(arg))>>
    ELSE <<>>

RECURSIVE ParseLoop(_, _, _)
\* The loop of lines 102-116 over the arguments still to read: the pair
\* <<runArgs, nonValueReplacementArgs>> it leaves.
ParseLoop(programArgs, runArgs, nonValueReplacementArgs) ==
    IF programArgs = <<>> THEN <<runArgs, nonValueReplacementArgs>>
    ELSE LET arg == Head(programArgs)
             matches == FindStringSubmatch(arg)
         IN  IF Len(matches) > 0
             THEN \* matches[2] is never empty: the pattern's (.+)
                  ParseLoop(Tail(programArgs),
                            Put(runArgs, matches[2], matches[3]),
                            nonValueReplacementArgs)
             ELSE ParseLoop(Tail(programArgs), runArgs,
                            Append(nonValueReplacementArgs, arg))

\* getTargetNameAndRunArgs with CMD and BIN set before the arguments are
\* read, so that an assignment to one of them replaces its value.
getTargetNameAndRunArgsCallerWins(programArgs, exe) ==
    LET loop == ParseLoop(programArgs, EmptyKV, <<>>)
        runArgs == loop[1]
        nonValueReplacementArgs == loop[2]
    IN  IF Len(nonValueReplacementArgs) = 0
        THEN [target |-> <<>>, runArgs |-> NilMap, err |-> ErrTargetMissing]
        ELSE LET target == nonValueReplacementArgs[1]
                 cmdVar == Join(Tail(nonValueReplacementArgs), <<" ">>)
                 reserved == Put(Put(EmptyKV, <<"C","M","D">>, cmdVar),
                                 <<"B","I","N">>, exe.path)
             IN  IF exe.err # NoError
                 THEN [target |-> <<>>, runArgs |-> NilMap, err |-> exe.err]
                 ELSE [target |-> target,
                       runArgs |-> [nil |-> FALSE,
                                    kv |-> Overlay(reserved, runArgs)],
                       err |-> NoError]

\* What getTargetNameAndRunArgs returns for programArgs when os.Executable()
\* returns exe = [path, err].
getTargetNameAndRunArgs(programArgs, exe) ==
    LET loop == ParseLoop(programArgs, EmptyKV, <<>>)
        runArgs == loop[1]
        nonValueReplacementArgs == loop[2]
    IN  IF Len(nonValueReplacementArgs) = 0
        THEN [target |-> <<>>, runArgs |-> NilMap, err |-> ErrTargetMissing]
        ELSE LET target == nonValueReplacementArgs[1]
                 cmdVar == Join(Tail(nonValueReplacementArgs), <<" ">>)
                 withCmd == Put(runArgs, <<"C","M","D">>, cmdVar)
             IN  IF exe.err # NoError
                 THEN [target |-> <<>>, runArgs |-> NilMap, err |-> exe.err]
                 ELSE [target |-> target,
                       runArgs |-> [nil |-> FALSE,
                                    kv |-> Put(withCmd, <<"B","I","N">>,
                                               exe.path)],
                       err |-> NoError]

-----------------------------------------------------------------------------
(* withResolvedArgs (torto.go 136-144). *)

\* The outcome of a resolution whose recursion does not end: the Go
\* runtime stops the program when the goroutine's stack is exhausted.
StackOverflow == <<"fatal error: stack overflow">>

\* The keys of a call chain, and how many calls of it resolve the value of
\* a key that a call below them on the stack is already resolving.
Keys(stack) == { stack[i] : i \in 1..Len(stack) }
Reentries(stack) == Len(stack) - Cardinality(Keys(stack))

RECURSIVE ResolveLoopFlat(_, _, _, _)
\* ResolveLoop replacing a token by the value of its variable as it is in
\* the map, without resolving the value first.
ResolveLoopFlat(argValue, todo, kv, stack) ==
    LET found == { k \in todo : Contains(argValue, <<"$">> \o k) } IN
    IF found = {} THEN {argValue}
    ELSE UNION {
        UNION {
            ResolveLoopFlat(ReplaceAll(argValue, <<"$">> \o k, kv[k]),
                            todo \ (skipped \cup {k}), kv, stack)
            : skipped \in SUBSET (todo \ found) }
        : k \in found }

RECURSIVE ResolveLoop(_, _, _, _)
\* The outcomes of the range loop of lines 137-142 with the keys of `todo`
\* still to visit. Go visits the keys of a map in an order it leaves
\* unspecified. A key whose token is not in argValue when it is visited
\* changes nothing, so what an order decides is the key `k` that is replaced
\* next, among those whose token is in argValue, and the set `skipped` of
\* the other keys visited before it. `stack` holds the keys whose values
\* the calls on the stack are resolving. A key met again inside its own
\* resolution is the same call inside itself: the same choices made again
\* give a recursion that does not end, which is the outcome StackOverflow,
\* while other choices may end it, and the results of up to MaxReentry such
\* calls on the stack are outcomes too.
ResolveLoop(argValue, todo, kv, stack) ==
    LET found == { k \in todo : Contains(argValue, <<"$">> \o k) } IN
    IF found = {} THEN {argValue}
    ELSE UNION {
        LET values ==
                IF k \in Keys(stack) /\ Reentries(stack) >= MaxReentry
                THEN {StackOverflow}
                ELSE ResolveLoop(kv[k], DOMAIN kv, kv, Append(stack, k))
                     \cup (IF k \in Keys(stack) THEN {StackOverflow} ELSE {})
        IN  UNION {
                IF resolvedArgValue = StackOverflow
                THEN {StackOverflow}
                ELSE UNION {
                    ResolveLoop(
                        ReplaceAll(argValue, <<"$">> \o k, resolvedArgValue),
                        todo \ (skipped \cup {k}), kv, stack)
                    : skipped \in SUBSET (todo \ found) }
                : resolvedArgValue \in values }
        : k \in found }

\* withResolvedArgs taking "$$" for an escaped "$" before it resolves.
withResolvedArgsUnescapes(argValue, kv) ==
    ResolveLoop(ReplaceAll(argValue, <<"$","$">>, <<"$">>), DOMAIN kv, kv,
                <<>>)

\* Every value withResolvedArgs(argValue, c) may return when
\* c.argReplacements holds kv, and StackOverflow when it may not return.
withResolvedArgs(argValue, kv) == ResolveLoop(argValue, DOMAIN kv, kv, <<>>)

\* A call of withResolvedArgs on argValue, as `events` records it: result
\* is what it returned, or StackOverflow.
Resolution(argValue, result) ==
    [op |-> "withResolvedArgs", argValue |-> argValue, result |-> result]

-----------------------------------------------------------------------------
(* getTargetsFile, emptyTargets, getTargets (torto.go 39-94). *)

\* A *Targets: nil, or a pointer to a struct of two maps.
NilTargets == [nil |-> TRUE, Targets |-> NilMap, Vars |-> NilMap]

\* emptyTargets (lines 59-64).
emptyTargets == [nil |-> FALSE, Targets |-> MakeMap, Vars |-> MakeMap]

\* What getTargetsFile returns on a file that deserializes to the two maps.
Loaded(tm, vm) ==
    [file |-> [nil |-> FALSE, Targets |-> tm, Vars |-> vm], err |-> NoError]

\* What getTargetsFile returns when os.Open or yaml.Unmarshal fails.
LoadFailed(kind, filename) ==
    [file |-> NilTargets, err |-> Error(kind, filename, 0)]

\* getTargets (lines 66-94) on the results of the two loads: whether it
\* panics, else the *Targets and the error it returns and the content of
\* c.argReplacements it leaves (argReplacements is the map's content on
\* entry; ArgsValidator allocates it).
getTargets(argReplacements, default, thisDir) ==
    IF default.err # NoError /\ thisDir.err # NoError
    THEN [panic |-> FALSE, targets |-> NilTargets, err |-> thisDir.err,
          argReplacements |-> argReplacements]
    ELSE
    LET defaultTargets == IF default.file.nil THEN emptyTargets
                          ELSE default.file
        thisDirTargets == IF thisDir.file.nil THEN emptyTargets
                          ELSE thisDir.file
        \* an assignment to an entry of a nil map panics
        panics ==
            \/ /\ defaultTargets.Targets.nil
               /\ DOMAIN thisDirTargets.Targets.kv # {}
            \/ /\ defaultTargets.Vars.nil
               /\ DOMAIN thisDirTargets.Vars.kv # {}
        mergedTargets == [defaultTargets.Targets EXCEPT
            !.kv = Overlay(@, thisDirTargets.Targets.kv)]
        mergedVars == [defaultTargets.Vars EXCEPT
            !.kv = Overlay(@, thisDirTargets.Vars.kv)]
    IN  IF panics
        THEN [panic |-> TRUE, targets |-> NilTargets, err |-> NoError,
              argReplacements |-> argReplacements]
        ELSE [panic |-> FALSE,
              targets |-> [nil |-> FALSE, Targets |-> mergedTargets,
                           Vars |-> mergedVars],
              err |-> NoError,
              argReplacements |-> Overlay(argReplacements, mergedVars.kv)]

-----------------------------------------------------------------------------
(* The inputs of an invocation: arguments, the executable's path, and the  *)
(* two targets files.                                                      *)

\* All sequences over S of length at most n.
SeqsUpTo(S, n) == UNION { [1..m -> S] : m \in 0..n }

\* The arguments an invocation is made of: two target names, one of them
\* holding a $T token, and assignments, one of them to itself.
ArgPool ==
    { <<"t">>, <<"$","T">>, <<"T","=","t">>, <<"T","=","$","T">>,
      <<"X","=","3">> }

ArgLists == SeqsUpTo(ArgPool, MaxArgs)

\* os.Executable(): the path of the running executable, or an error.
BinPath == <<"/","b">>
Executables ==
    { [path |-> BinPath, err |-> NoError],
      [path |-> <<>>, err |-> ErrExecutable] }

\* The raw commands of the targets files.
CmdPool == { <<"a">>, <<"$","X">> }
CmdLists == SeqsUpTo(CmdPool, MaxCmds)

\* An allocated map holding kv.
MapOf(kv) == [nil |-> FALSE, kv |-> kv]

\* The `targets` mappings of the targets files: absent (nil), empty, target
\* t with any command list, and targets t and $T together.
TargetMaps ==
    { NilMap, MakeMap }
    \cup { MapOf([n \in {<<"t">>} |-> l]) : l \in CmdLists }
    \cup { MapOf([n \in {<<"t">>, <<"$","T">>} |->
                    IF n = <<"t">> THEN <<<<"a">>>> ELSE <<<<"$","X">>>>]) }

\* The `vars` mappings of the local file: absent, X set, X set to itself.
LocalVarMaps ==
    { NilMap,
      MapOf([n \in {<<"X">>} |-> <<"2">>]),
      MapOf([n \in {<<"X">>} |-> <<"$","X">>]) }

\* The `vars` mappings of the global file: absent, X set through Y.
GlobalVarMaps ==
    { NilMap,
      MapOf([n \in {<<"X">>, <<"Y">>} |->
                IF n = <<"X">> THEN <<"$","Y">> ELSE <<"1">>]) }

GlobalTargetMaps ==
    { NilMap, MapOf([n \in {<<"t">>} |-> <<<<"$","X">>, <<"a">>>>]) }

\* What getTargetsFile may return for the local file.
LocalLoads(filename) ==
    { Loaded(tm, vm) : tm \in TargetMaps, vm \in LocalVarMaps }
    \cup { LoadFailed("os.Open", filename),
           LoadFailed("yaml.Unmarshal", filename) }

\* What getTargetsFile may return for the global file.
GlobalLoads(filename) ==
    { Loaded(tm, vm) : tm \in GlobalTargetMaps, vm \in GlobalVarMaps }
    \cup { LoadFailed("os.Open", filename) }

\* getTargetsFile has not been called.
NotLoaded == [file |-> NilTargets, err |-> Error("not called", <<>>, 0)]

\* getTargetNameAndRunArgs has not been called.
NotParsed ==
    [target |-> <<>>, runArgs |-> NilMap, err |-> Error("not called", <<>>, 0)]

\* The loop of lines 89-91 of getTargets, as `events` records it: the
\* variables of the merged files are in c.argReplacements from here on.
VarsCopied == [op |-> "copy vars", argValue |-> <<>>, result |-> <<>>]

-----------------------------------------------------------------------------
(* The invocation: CreateCommand, cobra's flag parsing, ArgsValidator and  *)
(* Execute (torto.go 146-247).                                             *)

\* The Config of CreateCommand (lines 196-203).
NewConfig ==
    [target |-> <<>>,
     argReplacements |-> MakeMap,
     debug |-> FALSE,
     force |-> FALSE,
     targetsFilePath |-> <<"torto.yml">>,
     defaultTargetsFilePath |-> <<"~/torto.yml">>,
     thisTarget |-> <<>>]

Init ==
    /\ pc = "created"
    /\ c = NewConfig
    /\ args = <<>>
    /\ parsed = NotParsed
    /\ gload = NotLoaded
    /\ lload = NotLoaded
    /\ targets = NilTargets
    /\ err = NoError
    /\ idx = 0
    /\ command = <<>>
    /\ shell = <<>>
    /\ status = <<>>
    /\ out = <<>>
    /\ events = <<>>

\* cobra sets the flags bound at lines 215-216 before it validates the
\* arguments.
ParseFlags ==
    /\ pc = "created"
    /\ \E f \in BOOLEAN, d \in BOOLEAN :
          c' = [c EXCEPT !.force = f, !.debug = d]
    /\ pc' = "flags"
    /\ UNCHANGED <<args, parsed, gload, lload, targets, err, idx, command,
                   shell, status, out, events>>

\* LookupName looking up the resolved name.
LookupResolved(targetName, resolved) == resolved

\* The name ArgsValidator looks up in the merged targets (line 237): the
\* argument as given, not c.target.
LookupName(targetName, resolved) == targetName

\* ArgsValidator from line 231 on, with c.argReplacements and c.target set.
ValidateTargets(c1, targetName, default, thisDir) ==
    LET r == getTargets(c1.argReplacements.kv, default, thisDir)
        c2 == [c1 EXCEPT !.argReplacements.kv = r.argReplacements]
        name == LookupName(targetName, c1.target)
    IN  /\ gload' = default
        /\ lload' = thisDir
        /\ targets' = r.targets
        /\ events' = LET resolved == Append(events,
                                            Resolution(targetName, c1.target))
                     IN  IF r.panic \/ r.err # NoError THEN resolved
                         ELSE Append(resolved, VarsCopied)
        /\ IF r.panic
           THEN pc' = "panic" /\ c' = c1 /\ err' = err
           ELSE IF r.err # NoError
           THEN pc' = "failed" /\ c' = c1 /\ err' = r.err
           ELSE IF name \notin DOMAIN r.targets.Targets.kv
           THEN pc' = "failed" /\ c' = c2 /\ err' = ErrUnknownTarget(targetName)
           ELSE /\ pc' = "validated"
                /\ c' = [c2 EXCEPT !.thisTarget = r.targets.Targets.kv[name]]
                /\ err' = NoError

\* The function ArgsValidator returns (lines 222-246), called by cobra with
\* the positional arguments.
ArgsValidator ==
    /\ pc = "flags"
    /\ \E programArgs \in ArgLists, exe \in Executables :
        LET p == getTargetNameAndRunArgs(programArgs, exe)
            c0 == [c EXCEPT !.argReplacements = p.runArgs]
        IN  /\ args' = programArgs
            /\ parsed' = p
            /\ IF p.err # NoError
               THEN /\ pc' = "failed"
                    /\ err' = p.err
                    /\ UNCHANGED <<c, gload, lload, targets, events>>
               ELSE \E resolved \in withResolvedArgs(p.target, p.runArgs.kv) :
                    IF resolved = StackOverflow
                    THEN /\ pc' = "overflow"
                         /\ c' = c0
                         /\ events' = Append(events,
                                             Resolution(p.target, resolved))
                         /\ UNCHANGED <<err, gload, lload, targets>>
                    ELSE \E default \in GlobalLoads(c.defaultTargetsFilePath),
                            thisDir \in LocalLoads(c.targetsFilePath) :
                            ValidateTargets([c0 EXCEPT !.target = resolved],
                                            p.target, default, thisDir)
    /\ UNCHANGED <<idx, command, shell, status, out>>

\* What Execute prints: the configuration dump of debug mode (line 155),
\* the shell invocation of a command (line 163), the message of a failed
\* command (line 182) and its error under force (line 186).
Printed(kind, target, cmd) == [kind |-> kind, target |-> target, command |-> cmd]

\* Execute up to its loop (lines 146-156), called by cobra once
\* ArgsValidator has returned nil.
ExecuteEnter ==
    /\ pc = "validated"
    /\ pc' = "loop"
    /\ idx' = 1
    /\ out' = IF c.debug THEN Append(out, Printed("config", <<>>, <<>>))
              ELSE out
    /\ UNCHANGED <<c, args, parsed, gload, lload, targets, err, command,
                   shell, status, events>>

\* SkipsRun with the debug flag ignored.
SkipsRunNever(cfg) == FALSE

\* Whether Execute prints a command instead of running it (line 162).
SkipsRun(cfg) == cfg.debug

\* AbortsOnError with every failure tolerated.
AbortsNever(cfg) == FALSE

\* AbortsOnError with no failure tolerated.
AbortsAlways(cfg) == TRUE

\* Whether Execute returns the error of a failed command (line 183).
AbortsOnError(cfg) == ~cfg.force

\* Line 158 when the resolution of the command does not end.
ExecuteOverflow ==
    /\ pc = "loop"
    /\ idx <= Len(c.thisTarget)
    /\ StackOverflow \in withResolvedArgs(c.thisTarget[idx], c.argReplacements.kv)
    /\ pc' = "overflow"
    /\ events' = Append(events, Resolution(c.thisTarget[idx], StackOverflow))
    /\ UNCHANGED <<c, args, parsed, gload, lload, targets, err, idx, command,
                   shell, status, out>>

\* Lines 158-165: under debug the shell invocation is printed and the loop
\* goes on.
ExecuteDebug ==
    /\ pc = "loop"
    /\ idx <= Len(c.thisTarget)
    /\ SkipsRun(c)
    /\ \E cmd \in withResolvedArgs(c.thisTarget[idx], c.argReplacements.kv)
                    \ {StackOverflow} :
          /\ out' = Append(out, Printed("sh -c", <<>>, cmd))
          /\ events' = Append(events, Resolution(c.thisTarget[idx], cmd))
    /\ idx' = idx + 1
    /\ UNCHANGED <<pc, c, args, parsed, gload, lload, targets, err, command,
                   shell, status>>

\* ExecuteRun storing the resolved command in the command list, in place
\* of the raw one.
ExecuteRunInPlace ==
    /\ pc = "loop"
    /\ idx <= Len(c.thisTarget)
    /\ ~SkipsRun(c)
    /\ \E cmd \in withResolvedArgs(c.thisTarget[idx], c.argReplacements.kv)
                    \ {StackOverflow} :
          /\ command' = cmd
          /\ shell' = Append(shell, cmd)
          /\ events' = Append(events, Resolution(c.thisTarget[idx], cmd))
          /\ c' = [c EXCEPT !.thisTarget[idx] = cmd]
    /\ pc' = "running"
    /\ UNCHANGED <<args, parsed, gload, lload, targets, err, idx, status,
                   out>>

\* Lines 158-172: the resolved command is handed to the shell.
ExecuteRun ==
    /\ pc = "loop"
    /\ idx <= Len(c.thisTarget)
    /\ ~SkipsRun(c)
    /\ \E cmd \in withResolvedArgs(c.thisTarget[idx], c.argReplacements.kv)
                    \ {StackOverflow} :
          /\ command' = cmd
          /\ shell' = Append(shell, cmd)
          /\ events' = Append(events, Resolution(c.thisTarget[idx], cmd))
    /\ pc' = "running"
    /\ UNCHANGED <<c, args, parsed, gload, lload, targets, err, idx, status,
                   out>>

\* RunSucceeds with the loop leaving out the command that follows.
RunSucceedsSkips ==
    /\ pc = "running"
    /\ status' = Append(status, TRUE)
    /\ idx' = idx + 2
    /\ pc' = "loop"
    /\ command' = <<>>
    /\ UNCHANGED <<c, args, parsed, gload, lload, targets, err, shell, out,
                   events>>

\* cmd.Run() returns nil (line 172): the loop goes on.
RunSucceeds ==
    /\ pc = "running"
    /\ status' = Append(status, TRUE)
    /\ idx' = idx + 1
    /\ pc' = "loop"
    /\ command' = <<>>
    /\ UNCHANGED <<c, args, parsed, gload, lload, targets, err, shell, out,
                   events>>

\* cmd.Run() returns an error (lines 174-188).
RunFails ==
    /\ pc = "running"
    /\ status' = Append(status, FALSE)
    /\ command' = <<>>
    /\ IF AbortsOnError(c)
       THEN /\ out' = Append(out, Printed("error executing", c.target, command))
            /\ err' = ErrRun(idx)
            /\ pc' = "returned"
            /\ idx' = idx
       ELSE /\ out' = out \o << Printed("error executing", c.target, command),
                                Printed("err", <<>>, <<>>) >>
            /\ err' = err
            /\ pc' = "loop"
            /\ idx' = idx + 1
    /\ UNCHANGED <<c, args, parsed, gload, lload, targets, shell, events>>

\* The loop is over (line 192).
ExecuteReturn ==
    /\ pc = "loop"
    /\ idx > Len(c.thisTarget)
    /\ pc' = "returned"
    /\ err' = NoError
    /\ UNCHANGED <<c, args, parsed, gload, lload, targets, idx, command,
                   shell, status, out, events>>

Next ==
    \/ ParseFlags
    \/ ArgsValidator
    \/ ExecuteEnter
    \/ ExecuteOverflow
    \/ ExecuteDebug
    \/ ExecuteRun
    \/ RunSucceeds
    \/ RunFails
    \/ ExecuteReturn

Spec == Init /\ [][Next]_vars

-----------------------------------------------------------------------------
(* getTargets alone, on every pair of loads of a wider set of files.       *)

\* The `targets` mappings of a file: absent, or any of targets t and u,
\* t with any command list and u with the commands uCmds.
MergeTargetMaps(uCmds) ==
    { NilMap }
    \cup { MapOf([n \in names |-> IF n = <<"t">> THEN l ELSE uCmds]) :
             names \in SUBSET {<<"t">>, <<"u">>}, l \in CmdLists }

\* The `vars` mappings of a file: absent, or any of X and Y set to value.
MergeVarMaps(value) ==
    { NilMap }
    \cup { MapOf([n \in names |-> value]) :
             names \in SUBSET {<<"X">>, <<"Y">>} }

\* What getTargetsFile may return for a file of the wider set.
MergeLoads(filename, uCmds, value) ==
    { Loaded(tm, vm) : tm \in MergeTargetMaps(uCmds),
                       vm \in MergeVarMaps(value) }
    \cup { LoadFailed("os.Open", filename),
           LoadFailed("yaml.Unmarshal", filename) }

\* The maps ArgsValidator has put in c.argReplacements when it calls
\* getTargets: what the parser returned for `t` and for `t X=3 Y=3`.
MergeRunArgs ==
    { getTargetNameAndRunArgs(a, [path |-> BinPath, err |-> NoError]).runArgs :
        a \in { <<<<"t">>>>,
                <<<<"t">>, <<"X","=","3">>, <<"Y","=","3">>>> } }

InitMerge ==
    /\ pc = "merge"
    /\ \E runArgs \in MergeRunArgs :
          c = [NewConfig EXCEPT !.argReplacements = runArgs,
                                !.target = <<"t">>]
    /\ args = <<>>
    /\ parsed = NotParsed
    /\ gload \in MergeLoads(NewConfig.defaultTargetsFilePath,
                            <<<<"a">>>>, <<"1">>)
    /\ lload \in MergeLoads(NewConfig.targetsFilePath,
                            <<<<"$","X">>>>, <<"2">>)
    /\ targets = NilTargets
    /\ err = NoError
    /\ idx = 0
    /\ command = <<>>
    /\ shell = <<>>
    /\ status = <<>>
    /\ out = <<>>
    /\ events = <<>>

\* The call of getTargets at line 231.
MergeCall ==
    /\ pc = "merge"
    /\ LET r == getTargets(c.argReplacements.kv, gload, lload) IN
        /\ pc' = IF r.panic THEN "panic" ELSE "merged"
        /\ targets' = r.targets
        /\ err' = r.err
        /\ c' = [c EXCEPT !.argReplacements.kv = r.argReplacements]
        /\ events' = IF r.panic \/ r.err # NoError THEN events
                     ELSE Append(events, VarsCopied)
    /\ UNCHANGED <<args, parsed, gload, lload, idx, command, shell, status,
                   out>>

NextMerge == MergeCall

SpecMerge == InitMerge /\ [][NextMerge]_vars

-----------------------------------------------------------------------------
(* getTargetNameAndRunArgs alone, on a wider set of arguments.             *)

\* Arguments that match the pattern and arguments that nearly do: no
\* value, no name, a name that is not alphanumeric, a line feed in the
\* value, a second "=".
ParseArgPool ==
    { <<"t">>, <<"$","T">>, <<"u">>,
      <<"X","=","3">>, <<"X","=","4">>, <<"T","=","t">>,
      <<"X","=">>, <<"=","3">>, <<"a","-","b","=","c">>,
      <<"X","=","a","\n","b">>, <<"X","=","3","=","4">>,
      <<"C","M","D","=","x">>, <<"B","I","N","=","x">> }

InitParse ==
    /\ pc = "parse"
    /\ c = NewConfig
    /\ args \in SeqsUpTo(ParseArgPool, MaxArgs)
    /\ parsed = NotParsed
    /\ gload = NotLoaded
    /\ lload = NotLoaded
    /\ targets = NilTargets
    /\ err = NoError
    /\ idx = 0
    /\ command = <<>>
    /\ shell = <<>>
    /\ status = <<>>
    /\ out = <<>>
    /\ events = <<>>

\* The call of getTargetNameAndRunArgs at line 223.
ParseCall ==
    /\ pc = "parse"
    /\ \E exe \in Executables :
          /\ parsed' = getTargetNameAndRunArgs(args, exe)
          /\ err' = parsed'.err
    /\ pc' = "parsed"
    /\ UNCHANGED <<c, args, gload, lload, targets, idx, command, shell,
                   status, out, events>>

NextParse == ParseCall

SpecParse == InitParse /\ [][NextParse]_vars

-----------------------------------------------------------------------------
(* withResolvedArgs alone, on a wider set of strings and variable maps.    *)

\* Names of variables, one of them a prefix of another.
ResolveKeys == { <<"A">>, <<"X">>, <<"A","B">> }

\* Values of variables: without "$", with a "$" that starts no token, and
\* with the tokens of the names.
ResolveValues ==
    { <<>>, <<"x">>, <<"$">>,
      <<"$","A">>, <<"$","X">>, <<"$","A","B">>, <<"$","X","A">> }

\* The maps c.argReplacements may hold when withResolvedArgs is called:
\* CMD and BIN as the parser sets them for `t`, and up to MaxKeys
\* variables of the caller or of the files.
ResolveMaps ==
    LET base == getTargetNameAndRunArgs(<< <<"t">> >>,
                    [path |-> BinPath, err |-> NoError]).runArgs.kv
    IN  { Overlay(base, kv) :
            kv \in UNION { [names -> ResolveValues] :
                             names \in { n \in SUBSET ResolveKeys :
                                           Cardinality(n) <= MaxKeys } } }

\* The strings to resolve: without "$", with tokens, with a "$" that
\* starts no token, with a token of no variable.
ResolveStrings ==
    { <<"x">>, <<"a","$">>, <<"$","Z">>, <<"$","A">>, <<"$","X">>,
      <<"$","A","B">>, <<"$","A","X">>, <<"$","A","$","X">>,
      <<"$","$","A","A">> }

InitResolve ==
    /\ pc = "resolve"
    /\ \E argValue \in ResolveStrings, kv \in ResolveMaps :
          c = [NewConfig EXCEPT !.argReplacements = MapOf(kv),
                                !.thisTarget = <<argValue>>]
    /\ args = <<>>
    /\ parsed = NotParsed
    /\ gload = NotLoaded
    /\ lload = NotLoaded
    /\ targets = NilTargets
    /\ err = NoError
    /\ idx = 1
    /\ command = <<>>
    /\ shell = <<>>
    /\ status = <<>>
    /\ out = <<>>
    /\ events = <<>>

\* The call of withResolvedArgs at line 158 on the string of c.thisTarget.
ResolveCall ==
    /\ pc = "resolve"
    /\ \E result \in withResolvedArgs(c.thisTarget[idx],
                                      c.argReplacements.kv) :
          /\ events' = Append(events, Resolution(c.thisTarget[idx], result))
          /\ pc' = IF result = StackOverflow THEN "overflow" ELSE "resolved"
    /\ UNCHANGED <<c, args, parsed, gload, lload, targets, err, idx, command,
                   shell, status, out>>

\* A call of withResolvedArgs on what the first call returned.
ResolveAgain ==
    /\ pc = "resolved"
    /\ \E result \in withResolvedArgs(events[1].result,
                                      c.argReplacements.kv) :
          /\ events' = Append(events, Resolution(events[1].result, result))
          /\ pc' = IF result = StackOverflow THEN "overflow"
                   ELSE "resolved again"
    /\ UNCHANGED <<c, args, parsed, gload, lload, targets, err, idx, command,
                   shell, status, out>>

NextResolve ==
    \/ ResolveCall
    \/ ResolveAgain

SpecResolve == InitResolve /\ [][NextResolve]_vars

-----------------------------------------------------------------------------
(* The claims.                                                             *)

\* ArgsValidator has returned nil (a resolution that does not end stops
\* the program in ArgsValidator before the files are read, or in Execute).
Validated ==
    \/ pc \in {"validated", "loop", "running", "returned"}
    \/ pc = "overflow" /\ ~targets.nil

\* The variables the loaded files define.
GlobalVars == gload.file.Vars.kv
LocalVars == lload.file.Vars.kv
GlobalTargets == gload.file.Targets.kv
LocalTargets == lload.file.Targets.kv

\* C1: once ArgsValidator has run, a variable that a loaded file and the
\* caller (NAME=value, or the reserved CMD and BIN) both define has the
\* caller's value in the map the commands are resolved with.
C1_CallerPrecedence ==
    Validated =>
        \A k \in (DOMAIN parsed.runArgs.kv)
                    \cap ((DOMAIN GlobalVars) \cup (DOMAIN LocalVars)) :
            c.argReplacements.kv[k] = parsed.runArgs.kv[k]

\* C2: when both files load, getTargets returns without a panic and
\* without an error, whichever of `targets` and `vars` each file leaves
\* absent or empty, and what it returns holds the targets and the variables
\* of both files.
C2_MergeCompletes ==
    (pc \in {"merged", "panic"} /\ gload.err = NoError /\ lload.err = NoError)
    => /\ pc = "merged"
       /\ err = NoError
       /\ ~targets.nil
       /\ DOMAIN targets.Targets.kv
            = (DOMAIN GlobalTargets) \cup (DOMAIN LocalTargets)
       /\ DOMAIN targets.Vars.kv = (DOMAIN GlobalVars) \cup (DOMAIN LocalVars)

\* C3: without force and without debug, a command that failed is the last
\* one handed to the shell, and Execute has returned its error; when
\* Execute returns and no command failed, every command was run and the
\* result is nil.
C3_AbortOnFirstFailure ==
    (~c.force /\ ~c.debug) =>
        /\ \A j \in 1..Len(status) :
               ~status[j] => /\ j = Len(shell)
                             /\ pc = "returned"
                             /\ err = ErrRun(j)
                             /\ err # NoError
        /\ (pc = "returned" /\ \A j \in 1..Len(status) : status[j])
               => /\ err = NoError
                  /\ Len(status) = Len(c.thisTarget)
                  /\ Len(shell) = Len(c.thisTarget)

\* C3's case: the first of two commands failed and Execute returned.
C3_Witness ==
    /\ pc = "returned"
    /\ ~c.force /\ ~c.debug
    /\ Len(c.thisTarget) = 2
    /\ status = <<FALSE>>
    /\ Len(shell) = 1

\* The commands handed to the shell are the target's commands, resolved, in
\* list order, each once: the j-th run is a resolution of the j-th command.
ShellFollowsTarget ==
    /\ Len(shell) <= Len(c.thisTarget)
    /\ Len(status) \in {Len(shell), Len(shell) - 1}
    /\ \A j \in 1..Len(shell) :
           shell[j] \in withResolvedArgs(c.thisTarget[j], c.argReplacements.kv)

\* C4: with force and without debug, the commands are run in list order,
\* each once, whatever failed before, and when Execute returns every
\* command was run and the result is nil.
C4_ForceRunsAll ==
    (c.force /\ ~c.debug) =>
        /\ ShellFollowsTarget
        /\ (pc = "running") => Len(shell) = idx
        /\ (pc = "loop") => Len(shell) = idx - 1 /\ Len(status) = Len(shell)
        /\ (pc = "returned")
               => /\ err = NoError
                  /\ Len(shell) = Len(c.thisTarget)
                  /\ Len(status) = Len(c.thisTarget)

\* C4's case: both commands of a target failed and Execute returned.
C4_Witness ==
    /\ pc = "returned"
    /\ c.force /\ ~c.debug
    /\ status = <<FALSE, FALSE>>
    /\ Len(shell) = 2

\* C5: in what getTargets returns, a target of the local file has the
\* local command list, a target of the global file alone has the global
\* list, each list as it is in its file.
C5_LocalTargetsReplace ==
    (pc = "merged" /\ err = NoError) =>
        /\ DOMAIN targets.Targets.kv
             = (DOMAIN GlobalTargets) \cup (DOMAIN LocalTargets)
        /\ \A n \in DOMAIN LocalTargets :
               targets.Targets.kv[n] = LocalTargets[n]
        /\ \A n \in (DOMAIN GlobalTargets) \ (DOMAIN LocalTargets) :
               targets.Targets.kv[n] = GlobalTargets[n]

\* C5's case: both files define t with different two-command lists, and
\* the global file alone defines u.
C5_Witness ==
    /\ pc = "merged" /\ err = NoError
    /\ <<"t">> \in (DOMAIN GlobalTargets) \cap (DOMAIN LocalTargets)
    /\ Len(GlobalTargets[<<"t">>]) = 2
    /\ Len(LocalTargets[<<"t">>]) = 2
    /\ LocalTargets[<<"t">>][1] # LocalTargets[<<"t">>][2]
    /\ GlobalTargets[<<"t">>] # LocalTargets[<<"t">>]
    /\ <<"u">> \in (DOMAIN GlobalTargets) \ (DOMAIN LocalTargets)

\* C6: in what getTargets returns, a variable of both files has the local
\* value and a variable of one file has that file's value.
C6_LocalVarsReplace ==
    (pc = "merged" /\ err = NoError) =>
        /\ DOMAIN targets.Vars.kv = (DOMAIN GlobalVars) \cup (DOMAIN LocalVars)
        /\ \A n \in DOMAIN LocalVars : targets.Vars.kv[n] = LocalVars[n]
        /\ \A n \in (DOMAIN GlobalVars) \ (DOMAIN LocalVars) :
               targets.Vars.kv[n] = GlobalVars[n]

\* C6's case: both files define X with different values, the global file
\* alone defines Y.
C6_Witness ==
    /\ pc = "merged" /\ err = NoError
    /\ <<"X">> \in (DOMAIN GlobalVars) \cap (DOMAIN LocalVars)
    /\ GlobalVars[<<"X">>] # LocalVars[<<"X">>]
    /\ <<"Y">> \in (DOMAIN GlobalVars) \ (DOMAIN LocalVars)

\* C7: getTargets fails exactly when both loads fail, then with the local
\* load's error; when one load fails it succeeds with the targets and the
\* variables of the other file.
C7_FailsIffBothFail ==
    pc \in {"merged", "panic"} =>
        LET failed == pc = "panic" \/ err # NoError
            bothFail == gload.err # NoError /\ lload.err # NoError
            only == IF gload.err # NoError THEN lload.file ELSE gload.file
        IN  /\ failed <=> bothFail
            /\ bothFail => err = lload.err
            /\ (~bothFail /\ (gload.err # NoError \/ lload.err # NoError))
                 => /\ targets.Targets.kv = only.Targets.kv
                    /\ targets.Vars.kv = only.Vars.kv

\* C7, the part on the returned error, which the code keeps: the error is
\* non-nil exactly when both loads fail, and is then the local load's; with
\* one load failed getTargets returns the other file's maps.
C7_ReturnedError ==
    pc \in {"merged", "panic"} =>
        LET bothFail == gload.err # NoError /\ lload.err # NoError
            only == IF gload.err # NoError THEN lload.file ELSE gload.file
        IN  /\ (err # NoError) <=> bothFail
            /\ bothFail => err = lload.err /\ targets.nil
            /\ (~bothFail /\ (gload.err # NoError \/ lload.err # NoError))
                 => /\ pc = "merged"
                    /\ targets.Targets.kv = only.Targets.kv
                    /\ targets.Vars.kv = only.Vars.kv

\* C8: the merged targets are looked up by the target argument as given.
\* When it is no key of them, ArgsValidator fails with an error naming it,
\* c.thisTarget stays empty and nothing is run or printed; when it is one,
\* c.thisTarget is the merged list of that key, also when the argument
\* resolves to the name of another target.
C8_LiteralLookup ==
    /\ (pc = "failed" /\ err.kind = ErrUnknownTarget(<<>>).kind)
         => /\ ~targets.nil
            /\ parsed.target \notin DOMAIN targets.Targets.kv
    /\ (parsed.err = NoError /\ ~targets.nil) =>
         /\ \E i \in 1..Len(args) : args[i] = parsed.target
         /\ IF parsed.target \in DOMAIN targets.Targets.kv
            THEN /\ Validated
                 /\ c.thisTarget = targets.Targets.kv[parsed.target]
            ELSE /\ pc = "failed"
                 /\ err = ErrUnknownTarget(parsed.target)
                 /\ c.thisTarget = <<>>
                 /\ shell = <<>>
                 /\ out = <<>>

\* C8's case: the argument $T resolves to t, both are targets with
\* different lists, and the list of $T is selected.
C8_Witness ==
    /\ Validated
    /\ parsed.target = <<"$","T">>
    /\ c.target = <<"t">>
    /\ {<<"t">>, <<"$","T">>} \subseteq DOMAIN targets.Targets.kv
    /\ targets.Targets.kv[<<"t">>] # targets.Targets.kv[<<"$","T">>]
    /\ c.thisTarget = targets.Targets.kv[<<"$","T">>]

\* An argument of the form NAME=VALUE: one or more alphanumerics, "=", one
\* or more characters of any kind.
IsNameValue(arg) ==
    \E i \in 2..(Len(arg) - 1) :
        /\ arg[i] = "="
        /\ \A j \in 1..(i - 1) : arg[j] \in AlNum

\* C9: getTargetNameAndRunArgs fails with `target missing`, returning no
\* target name and no map, when every argument is of the form NAME=VALUE
\* (or there is none), and does not fail with it otherwise.
C9_TargetMissing ==
    pc = "parsed" =>
        IF \A i \in 1..Len(args) : IsNameValue(args[i])
        THEN /\ parsed.err = ErrTargetMissing
             /\ parsed.target = <<>>
             /\ parsed.runArgs = NilMap
        ELSE parsed.err # ErrTargetMissing

\* C9 for arguments without a line feed, which the code keeps.
C9_WithoutLineFeed ==
    (pc = "parsed" /\ \A i \in 1..Len(args) : ~Contains(args[i], <<"\n">>))
    => IF \A i \in 1..Len(args) : IsNameValue(args[i])
       THEN /\ parsed.err = ErrTargetMissing
            /\ parsed.target = <<>>
            /\ parsed.runArgs = NilMap
       ELSE parsed.err # ErrTargetMissing

\* C10: under debug, with or without force, nothing is handed to the
\* shell; the shell invocations printed are those of the target's commands
\* in list order, each resolved and printed once; Execute returns nil.
C10_DebugPrintsOnly ==
    c.debug =>
        /\ shell = <<>> /\ status = <<>> /\ pc # "running"
        /\ (pc \in {"loop", "returned"}) =>
             /\ Len(out) = idx
             /\ out[1].kind = "config"
             /\ \A j \in 1..(idx - 1) :
                  /\ out[j + 1].kind = "sh -c"
                  /\ out[j + 1].command \in
                       withResolvedArgs(c.thisTarget[j], c.argReplacements.kv)
        /\ (pc = "returned") => err = NoError /\ idx = Len(c.thisTarget) + 1

\* C10's case: Execute returned under debug and force after printing two
\* commands, one of them changed by its resolution.
C10_Witness ==
    /\ pc = "returned"
    /\ c.debug /\ c.force
    /\ Len(c.thisTarget) = 2
    /\ Len(out) = 3
    /\ \E j \in 1..2 : out[j + 1].command # c.thisTarget[j]

-----------------------------------------------------------------------------
(* The claims about withResolvedArgs alone.                                *)

\* The token of the variable k.
Token(k) == <<"$">> \o k

\* s holds the token of a variable of kv.
HasToken(s, kv) == \E k \in DOMAIN kv : Contains(s, Token(k))

\* The calls of withResolvedArgs recorded so far.
Resolutions == { i \in 1..Len(events) : events[i].op = "withResolvedArgs" }

\* C11: a string that holds the token of no variable of the map is
\* returned as it is, whatever else it holds.
C11_NoTokenUnchanged ==
    \A i \in Resolutions :
        ~HasToken(events[i].argValue, c.argReplacements.kv)
        => events[i].result = events[i].argValue

\* A string with a "$" and with "A" in it was resolved against a map that
\* holds variables but not A.
C11_Witness ==
    /\ pc = "resolved"
    /\ ~HasToken(events[1].argValue, c.argReplacements.kv)
    /\ Contains(events[1].argValue, <<"$">>)
    /\ Contains(events[1].argValue, <<"A">>)
    /\ <<"X">> \in DOMAIN c.argReplacements.kv

\* No value of kv holds the token of a variable of kv.
NoValueHasToken(kv) == \A k \in DOMAIN kv : ~HasToken(kv[k], kv)

\* C12: against a map in which no value holds the token of a variable,
\* resolving the result of a resolution again returns it unchanged,
\* whatever the order in which the keys are visited.
C12_Idempotent ==
    (pc = "resolved again" /\ NoValueHasToken(c.argReplacements.kv))
    => events[2].result = events[1].result

\* C12 for the results that hold no "$": a second resolution leaves them
\* as they are.
C12_IdempotentWithoutDollar ==
    (pc = "resolved again" /\ ~Contains(events[1].result, <<"$">>))
    => events[2].result = events[1].result

\* The variables whose tokens the value of a holds: those a references.
Referenced(a, kv) == { b \in DOMAIN kv : Contains(kv[a], Token(b)) }

RECURSIVE Reached(_, _)
\* The variables of S and those referenced from them, directly or not.
Reached(S, kv) ==
    LET T == S \cup UNION { Referenced(a, kv) : a \in S } IN
    IF T = S THEN S ELSE Reached(T, kv)

\* a lies on a cycle of the reference relation of kv.
OnCycle(a, kv) == a \in Reached(Referenced(a, kv), kv)

\* The reference relation of kv has no cycle.
Acyclic(kv) == \A a \in DOMAIN kv : ~OnCycle(a, kv)

\* No name of kv is the beginning of another name of kv.
NoPrefixKeys(kv) ==
    \A a, b \in DOMAIN kv :
        a # b => ~(Len(a) <= Len(b) /\ SubSeq(b, 1, Len(a)) = a)

\* Every "$" of s is the first character of the token of a variable of kv.
DollarsStartTokens(s, kv) ==
    \A i \in 1..Len(s) :
        s[i] = "$" => \E k \in DOMAIN kv :
                         /\ i + Len(k) <= Len(s)
                         /\ SubSeq(s, i + 1, i + Len(k)) = k

\* s holds the token of a variable that lies on a reference cycle of kv.
HasCyclicToken(s, kv) ==
    \E a \in DOMAIN kv : OnCycle(a, kv) /\ Contains(s, Token(a))

C13_WitnessCycle ==
    /\ pc = "overflow"
    /\ NoPrefixKeys(c.argReplacements.kv)
    /\ HasCyclicToken(events[1].argValue, c.argReplacements.kv)

-----------------------------------------------------------------------------
(* The claims about the invocation, continued.                             *)

\* The copies of the file variables into c.argReplacements recorded so far.
Copies == { i \in 1..Len(events) : events[i] = VarsCopied }

\* C14: the file variables are copied into c.argReplacements once, and no
\* call of withResolvedArgs, on the target name or on a command, comes
\* before the copy.
C14_CopiedBeforeResolution ==
    /\ Cardinality(Copies) <= 1
    /\ Validated => Cardinality(Copies) = 1
    /\ \A i \in Resolutions : \E j \in Copies : j < i

\* C14 for the commands: the file variables are copied once, and every
\* call of withResolvedArgs but the one on the target name comes after the
\* copy.
C14_CommandsAfterCopy ==
    /\ Cardinality(Copies) <= 1
    /\ Validated => Cardinality(Copies) = 1
    /\ \A i \in Resolutions : i > 1 => \E j \in Copies : j < i

\* The calls of withResolvedArgs Execute has made, in order: those after
\* the call on the target name and the copy of the variables.
Processing == SubSeq(events, 3, Len(events))

\* The resolved commands Execute has obtained, in order.
Obtained ==
    LET Returned(e) == e.result # StackOverflow
        done == SelectSeq(Processing, Returned)
    IN  [j \in 1..Len(done) |-> done[j].result]

\* The shell invocations printed so far, in order.
Shown ==
    LET IsShell(line) == line.kind = "sh -c"
        lines == SelectSeq(out, IsShell)
    IN  [j \in 1..Len(lines) |-> lines[j].command]

\* C15: in every mode the commands Execute has taken up are the first ones
\* of the target's list, in list order, none left out and none taken
\* twice; each was handed to the shell, or printed under debug; a command
\* is handed to the shell only when the one before it has ended, so that
\* at most one is running.
C15_SequentialPrefix ==
    Validated =>
        /\ Len(Processing) <= Len(c.thisTarget)
        /\ \A j \in 1..Len(Processing) :
               Processing[j].argValue = c.thisTarget[j]
        /\ pc = "loop" => Len(Processing) = idx - 1
        /\ pc = "running" => Len(Processing) = idx
        /\ IF c.debug THEN Shown = Obtained /\ shell = <<>>
                      ELSE shell = Obtained /\ Shown = <<>>
        /\ Len(status) = IF pc = "running" THEN Len(shell) - 1 ELSE Len(shell)

\* The second command of a target with two different commands is running,
\* the first having failed.
C15_Witness ==
    /\ pc = "running"
    /\ idx = 2
    /\ c.thisTarget[1] # c.thisTarget[2]
    /\ shell[1] # shell[2]
    /\ status = <<FALSE>>

-----------------------------------------------------------------------------
(* The claims about getTargetNameAndRunArgs alone, continued.              *)

\* The NAME and the VALUE of an argument of the form NAME=VALUE.
NameOf(arg) == SubSeq(arg, 1, FirstEq(arg) - 1)
ValueOf(arg) == SubSeq(arg, FirstEq(arg) + 1, Len(arg))

\* The reserved names.
Reserved == { <<"C","M","D">>, <<"B","I","N">> }

\* What the parser returned is what the arguments give when each is an
\* assignment if it is of the form NAME=VALUE and residual if not: the
\* target is the first residual argument, CMD the other residual arguments
\* joined by single spaces, and each assigned name other than a reserved
\* one holds the value of its last assignment.
ClassifiedAsStated ==
    LET Residual(arg) == ~IsNameValue(arg)
        residual == SelectSeq(args, Residual)
        kv == parsed.runArgs.kv
    IN  parsed.err = NoError =>
            /\ residual # <<>>
            /\ parsed.target = residual[1]
            /\ kv[<<"C","M","D">>] = Join(Tail(residual), <<" ">>)
            /\ DOMAIN kv = Reserved \cup { NameOf(args[i]) :
                               i \in { j \in 1..Len(args) :
                                         IsNameValue(args[j]) } }
            /\ \A i \in 1..Len(args) :
                   ( /\ IsNameValue(args[i])
                     /\ NameOf(args[i]) \notin Reserved
                     /\ \A j \in (i + 1)..Len(args) :
                            ~(IsNameValue(args[j])
                              /\ NameOf(args[j]) = NameOf(args[i])) )
                   => kv[NameOf(args[i])] = ValueOf(args[i])

\* C16: every argument is an assignment (alphanumeric NAME, "=", non-empty
\* VALUE) or residual, and the target, CMD and the assigned values are
\* those of that classification: first residual, other residuals joined,
\* last assignment of a name.
C16_Classification == pc = "parsed" => ClassifiedAsStated

\* C16 for arguments without a line feed, which the code keeps.
C16_WithoutLineFeed ==
    (pc = "parsed" /\ \A i \in 1..Len(args) : ~Contains(args[i], <<"\n">>))
    => ClassifiedAsStated

\* The arguments the parser did not take for assignments, in order.
NonValueReplacementArgs ==
    LET Unmatched(arg) == FindStringSubmatch(arg) = <<>>
    IN  SelectSeq(args, Unmatched)

\* C19: when the parser succeeds, the map holds CMD and BIN, CMD being the
\* arguments after the target that are not assignments, joined by single
\* spaces, and BIN the path of the executable, whatever the caller
\* assigned to CMD or BIN.
C19_ReservedSynthesized ==
    (pc = "parsed" /\ parsed.err = NoError) =>
        /\ Reserved \subseteq DOMAIN parsed.runArgs.kv
        /\ parsed.runArgs.kv[<<"C","M","D">>]
             = Join(Tail(NonValueReplacementArgs), <<" ">>)
        /\ parsed.runArgs.kv[<<"B","I","N">>] = BinPath

\* The parser succeeded on arguments that assign x to CMD or to BIN.
C19_Witness ==
    /\ pc = "parsed"
    /\ parsed.err = NoError
    /\ \E i \in 1..Len(args) :
           args[i] \in { <<"C","M","D","=","x">>, <<"B","I","N","=","x">> }

-----------------------------------------------------------------------------
(* The claims about withResolvedArgs alone, continued.                     *)

\* C17: against a map in which no name is the beginning of another and
\* the reference relation has no cycle, a string resolves to the same
\* result in whatever order the keys are visited.
C17_OrderIndependent ==
    ( /\ pc = "resolved"
      /\ NoPrefixKeys(c.argReplacements.kv)
      /\ Acyclic(c.argReplacements.kv) )
    => withResolvedArgs(events[1].argValue, c.argReplacements.kv)
         = {events[1].result}

\* C17 where, besides, every "$" of the string and of the values starts
\* the token of a variable, so that no replacement puts a new token
\* together.
C17_OrderIndependentTokensOnly ==
    ( /\ pc = "resolved"
      /\ NoPrefixKeys(c.argReplacements.kv)
      /\ Acyclic(c.argReplacements.kv)
      /\ DollarsStartTokens(events[1].argValue, c.argReplacements.kv)
      /\ \A k \in DOMAIN c.argReplacements.kv :
             DollarsStartTokens(c.argReplacements.kv[k],
                                c.argReplacements.kv) )
    => withResolvedArgs(events[1].argValue, c.argReplacements.kv)
         = {events[1].result}

-----------------------------------------------------------------------------
(* The claims about the invocation, continued.                             *)

\* C18: no step of Execute, from its entry to its return, changes the
\* Config: the variable map, the command list, the target name and the
\* flags are when it returns what they were when it was entered.
C18_ExecuteKeepsConfig ==
    [][(pc \in {"validated", "loop", "running"}) => (c' = c)]_vars

\* Execute has returned after two commands that hold tokens, resolved
\* against a map with variables of the files, the first having failed.
C18_Witness ==
    /\ pc = "returned"
    /\ Len(c.thisTarget) = 2
    /\ \A j \in 1..2 : HasToken(c.thisTarget[j], c.argReplacements.kv)
    /\ Len(status) = 2
    /\ ~status[1]
    /\ DOMAIN c.argReplacements.kv # DOMAIN parsed.runArgs.kv

=============================================================================
